---- MODULE Spec2Model ----
(***************************************************************************)
(* Model of yew-input's form controller (src/src/lib.rs): the Model        *)
(* component (create / view / update / change / update_default) and the    *)
(* callbacks FormHandle hands to the user's view function.                 *)
(*                                                                         *)
(* The shared store behind SharedHandle<T> is one cell of T.  A reduction  *)
(* is applied to the cell at once, and every reduction makes the framework *)
(* hand the controller its properties again and render (change returns     *)
(* true), so a handler that reduces the store ends with a fresh render.    *)
(* A callback built with reduce_callback_once* is a Callback::once: its    *)
(* closure is taken on the first emit and a later emit panics.             *)
(***************************************************************************)
EXTENDS Integers, Sequences, FiniteSets

\* ---------------------------------------------------------------- bounds
\* Longest live-task list the model lets Msg::Files build.
MaxTasks == 2

\* ------------------------------------------------------------ the type T
\* The controller is generic in T; here T = String.  Buttons write a fixed
\* word, text and select inputs write their text, the file input writes the
\* file's name.
Words == {"one", "two"}
Texts == {"", "Al", "Alice"}
FileNames == {"a.txt", "b.txt"}
T == Words \cup Texts \cup FileNames

\* T::default()
TDefault == ""

\* Values a parent supplies as Props::default; Option<T> is a set of at
\* most one value, {} being None.
DefaultVals == {TDefault} \cup Words
OptionT == {{}} \cup {{d} : d \in DefaultVals}

\* Props<T>, without the handle (the store) and the view function.
Props == [default : OptionT, auto_reset : BOOLEAN]

VARIABLES
    phase,      \* "unmounted", "created" (create ran, no DOM yet), "live"
    store,      \* the value in the shared store cell
    props,      \* Model::props (default, auto_reset)
    cb_reset,   \* Model::cb_reset: {} does nothing, {v} writes v to the store
    tasks,      \* Model::tasks: sequence of [file, cb, active]
    ref_form,   \* Model::ref_form is bound to the form element
    set_files,  \* identity of the once-callback the last render's set_file built
    used,       \* identities of once-callbacks whose closure has been taken
    onreset,    \* the reset callback the last render put on the form
    shown,      \* what state() returned in the last render
    last,       \* the handler that ran last, with its input
    log,        \* what that handler did, in order
    emitted     \* what that handler emitted to on_submit, in order

vars == <<phase, store, props, cb_reset, tasks, ref_form, set_files, used,
          onreset, shown, last, log, emitted>>

\* ------------------------------------------------------------ event data
\* InputData: the text of an input event.
InputData == [value : Texts]

\* The file list of a change event: selected files, each once, in order.
FileLists ==
    {fs \in UNION {[1..k -> FileNames] : k \in 0..Cardinality(FileNames)} :
        \A i, j \in 1..Len(fs) : i /= j => fs[i] /= fs[j]}

\* ChangeData: Select(el), Value(text) or Files(list).
ChangeData ==
    [kind : {"Select", "Value"}, value : Texts, files : {<<>>}]
      \cup [kind : {"Files"}, value : {""}, files : FileLists]

\* What the submit event's target is when Msg::Submit is handled: the form,
\* no target at all, or a target whose dispatch_event returns an error.
Targets == {"form", "none", "error"}

\* ------------------------------------------------------------ file tasks
\* A ReaderTask: its load-end listener holds the file's name and a clone of
\* the callback (cb: a set of at most one identity) until it has fired.

\* Task::is_active for a ReaderTask: the read has not completed.
is_active(t) == t.active

\* A task whose read has completed: the listener has fired and is gone.
Completed == [file |-> "", cb |-> {}, active |-> FALSE]

\* Variant of Retain that prunes nothing.
Retain_Nothing(ts) == ts

\* self.tasks.retain(Task::is_active)
Retain(ts) == SelectSeq(ts, is_active)

\* Once-callbacks held by the reads in progress.
HeldBy(ts) == UNION {ts[i].cb : i \in 1..Len(ts)}

\* Callback identities are kept numbered 0, 1, ... in the order in which
\* the list first holds them; a callback no task holds gets the next number.
First(ts, c) == CHOOSE i \in 1..Len(ts) :
                   /\ c \in ts[i].cb
                   /\ \A j \in 1..Len(ts) : c \in ts[j].cb => i <= j
Rank(ts, c) == IF c \in HeldBy(ts)
               THEN Cardinality({d \in HeldBy(ts) : First(ts, d) < First(ts, c)})
               ELSE Cardinality(HeldBy(ts))
Renumbered(ts) ==
    [i \in 1..Len(ts) |-> [ts[i] EXCEPT !.cb = {Rank(ts, c) : c \in ts[i].cb}]]

\* The identity of the once-callback a new render builds in set_file: one
\* that no read in progress holds.
FreshCb(ts) == Cardinality(HeldBy(ts))

\* Emitting a Callback::once whose closure has been taken panics.
Taken(cb, u) == cb \subseteq u

\* --------------------------------------------------- FormHandle callbacks

\* Variant of Cast that takes the reference to be bound.
Cast_Unchecked(node) == TRUE

\* submit's node.cast::<HtmlElement>(): Some(el) when the reference is bound.
Cast(node) == node

\* Variant of ExtractText that loses the event's text.
ExtractText_Empty(data) == ""

\* set_text's reform: |data: InputData| data.value
ExtractText(data) == data.value

\* Variant of ExtractSelect that accepts any change event.
ExtractSelect_Lenient(data) == [panic |-> FALSE, value |-> data.value]

\* set_select's reform: the element's value for ChangeData::Select, a panic
\* for anything else.
ExtractSelect(data) ==
    IF data.kind = "Select" THEN [panic |-> FALSE, value |-> data.value]
    ELSE [panic |-> TRUE, value |-> ""]

\* set_file's closure: the files of ChangeData::Files, none otherwise.
ExtractFiles(data) == IF data.kind = "Files" THEN data.files ELSE <<>>

\* The reducers the view binds: set(|s| *s = w) on a button,
\* set_text / set_select(|s, v| *s = v), set_file(|s, fd| *s = fd.name).
SetWord(s, w) == w
SetText(s, v) == v
SetFile(s, fd) == fd.name

\* The callbacks set, set_with, set_text and set_select return, and the
\* events one instance of each is invoked with twice in a row.
Producers == {"set", "set_text", "set_select"}
Events(producer) ==
    IF producer = "set" THEN [value : Words]
    ELSE IF producer = "set_text" THEN {d \in InputData : d.value /= ""}
    ELSE {d \in ChangeData : d.kind \in {"Select", "Value"} /\ d.value = "Al"}

\* What the callback's wrapper (reform) makes of the event d.
Extract(producer, d) ==
    IF producer = "set_select" THEN ExtractSelect(d)
    ELSE IF producer = "set_text"
         THEN [panic |-> FALSE, value |-> ExtractText(d)]
         ELSE [panic |-> FALSE, value |-> d.value]

\* The bound reducer applied to the store value s with the payload v.
Reduced(producer, s, v) ==
    IF producer = "set" THEN SetWord(s, v) ELSE SetText(s, v)

\* Variant of InvokeOnce whose closure can be run again and again.
InvokeOnce_Repeatable(producer, s, taken, x) ==
    IF x.panic
    THEN [store |-> s, taken |-> taken, log |-> "panic"]
    ELSE [store |-> Reduced(producer, s, x.value), taken |-> TRUE,
          log |-> "reduce"]

\* One invocation of a callback instance built on reduce_callback_once /
\* reduce_callback_once_with: a panic in the wrapper leaves the closure
\* alone, the first emit takes the closure and reduces the store, an emit
\* after that panics.
InvokeOnce(producer, s, taken, x) ==
    IF x.panic \/ taken
    THEN [store |-> s, taken |-> taken, log |-> "panic"]
    ELSE [store |-> Reduced(producer, s, x.value), taken |-> TRUE,
          log |-> "reduce"]

\* ---------------------------------------------------------- the controller

\* update_default's captured value: props.default, or T::default() for None.
ResetValue(default) == IF default = {} THEN TDefault
                       ELSE CHOOSE d \in default : TRUE

\* Emitting a reset callback on a store value.
EmitReset(cb, s) == IF cb = {} THEN s ELSE CHOOSE v \in cb : TRUE

\* Variant of UpdateDefault that emits the callback whatever the default.
UpdateDefault_AlwaysEmit(p, s) ==
    LET cb == {ResetValue(p.default)}
    IN  [cb_reset |-> cb, store |-> EmitReset(cb, s), log |-> <<"reset">>]

\* Variant of UpdateDefault whose callback for an absent default leaves the
\* store alone.
UpdateDefault_NoneKeeps(p, s) ==
    IF p.default /= {}
    THEN [cb_reset |-> p.default, store |-> EmitReset(p.default, s),
          log |-> <<"reset">>]
    ELSE [cb_reset |-> {}, store |-> s, log |-> <<>>]

\* Variant of UpdateDefault that builds the callback without emitting it.
UpdateDefault_NoEmit(p, s) ==
    [cb_reset |-> {ResetValue(p.default)}, store |-> s, log |-> <<>>]

\* update_default on properties p and store value s: the new reset
\* callback, the store afterwards and what was done.
UpdateDefault(p, s) ==
    LET cb == {ResetValue(p.default)}
    IN  IF p.default /= {}
        THEN [cb_reset |-> cb, store |-> EmitReset(cb, s), log |-> <<"reset">>]
        ELSE [cb_reset |-> cb, store |-> s, log |-> <<>>]

\* Variant of UpdateSubmit that resets before it emits.
UpdateSubmit_ResetFirst(p, cb, onr, s, t) ==
    IF p.auto_reset
    THEN [store |-> EmitReset(cb, s),
          emitted |-> <<EmitReset(cb, s)>>,
          log |-> <<"Msg::Submit", "reset", "emit">>,
          reduced |-> TRUE]
    ELSE [store |-> s, emitted |-> <<s>>, log |-> <<"Msg::Submit", "emit">>,
          reduced |-> FALSE]

\* Variant of UpdateSubmit that resets whatever auto_reset says.
UpdateSubmit_AlwaysReset(p, cb, onr, s, t) ==
    [store |-> EmitReset(cb, s),
     emitted |-> <<s>>,
     log |-> <<"Msg::Submit", "emit", "reset">>,
     reduced |-> TRUE]

\* Variant of UpdateSubmit that resets only when the event has a target the
\* reset event could be dispatched on.
UpdateSubmit_NeedsTarget(p, cb, onr, s, t) ==
    IF p.auto_reset /\ t = "form"
    THEN [store |-> EmitReset(cb, EmitReset(onr, s)),
          emitted |-> <<s>>,
          log |-> <<"Msg::Submit", "emit", "dispatch", "onreset", "reset">>,
          reduced |-> TRUE]
    ELSE [store |-> s, emitted |-> <<s>>, log |-> <<"Msg::Submit", "emit">>,
          reduced |-> FALSE]

\* update(Msg::Submit(e)) with e's target t: on_submit gets a copy of the
\* state, then with auto_reset the reset event is dispatched on the target
\* (the form's onreset handler runs the rendered reset callback) and the
\* reset callback is emitted.
UpdateSubmit(p, cb, onr, s, t) ==
    LET viaForm == IF t = "form" THEN EmitReset(onr, s) ELSE s
        dispatch == IF t = "none" THEN <<>>
                    ELSE IF t = "error" THEN <<"dispatch">>
                    ELSE <<"dispatch", "onreset">>
    IN  IF p.auto_reset
        THEN [store |-> EmitReset(cb, viaForm),
              emitted |-> <<s>>,
              log |-> <<"Msg::Submit", "emit">> \o dispatch \o <<"reset">>,
              reduced |-> TRUE]
        ELSE [store |-> s,
              emitted |-> <<s>>,
              log |-> <<"Msg::Submit", "emit">>,
              reduced |-> FALSE]

\* Variant of Scheduled that skips the failing file and goes on.
Scheduled_SkipFailed(files, cb, failAt) ==
    LET ok == SelectSeq([i \in 1..Len(files) |-> [file |-> files[i], at |-> i]],
                        LAMBDA f : f.at /= failAt)
    IN  [i \in 1..Len(ok) |-> [file |-> ok[i].file, cb |-> {cb}, active |-> TRUE]]

\* The tasks pushed by update(Msg::Files(files, cb)): one per file, up to
\* the first file whose read_file fails (failAt = 0: none fails).
Scheduled(files, cb, failAt) ==
    LET n == IF failAt = 0 THEN Len(files) ELSE failAt - 1
    IN  [i \in 1..n |-> [file |-> files[i], cb |-> {cb}, active |-> TRUE]]

\* Variant of UpdateFiles that returns at once for an empty file list.
UpdateFiles_NoOpWhenEmpty(ts, files, cb, failAt) ==
    LET pushed == Scheduled(files, cb, failAt)
    IN  IF files = <<>> THEN [tasks |-> ts, log |-> <<>>]
        ELSE [tasks |-> Retain(ts) \o pushed,
              log |-> <<"Msg::Files", "retain">>
                        \o [i \in 1..Len(pushed) |-> "schedule"]
                        \o (IF failAt = 0 THEN <<>> ELSE <<"panic">>)]

\* Variant of UpdateFiles that replaces the list by the new tasks.
UpdateFiles_Replace(ts, files, cb, failAt) ==
    LET pushed == Scheduled(files, cb, failAt)
    IN  [tasks |-> pushed,
         log |-> <<"Msg::Files", "retain">>
                   \o [i \in 1..Len(pushed) |-> "schedule"]
                   \o (IF failAt = 0 THEN <<>> ELSE <<"panic">>)]

\* update(Msg::Files(files, cb)): prune, then schedule file by file; the
\* expect on read_file's result panics at the first failure.
UpdateFiles(ts, files, cb, failAt) ==
    LET pushed == Scheduled(files, cb, failAt)
    IN  [tasks |-> Retain(ts) \o pushed,
         log |-> <<"Msg::Files", "retain">>
                   \o [i \in 1..Len(pushed) |-> "schedule"]
                   \o (IF failAt = 0 THEN <<>> ELSE <<"panic">>)]

\* Variant of DefaultChanged that takes no receipt for a change.
DefaultChanged_Never(new, old) == FALSE

\* Variant of DefaultChanged that takes every receipt for a change.
DefaultChanged_Always(new, old) == TRUE

\* change's test: self.props.default != last
DefaultChanged(new, old) == new /= old

\* Variant of ChangeResult that runs update_default only for a default that
\* is present.
ChangeResult_OnlyPresent(p, old, cb, s) ==
    IF DefaultChanged(p.default, old.default) /\ p.default /= {}
    THEN UpdateDefault(p, s)
    ELSE [cb_reset |-> cb, store |-> s, log |-> <<>>]

\* change: update_default runs when the default differs.
ChangeResult(p, old, cb, s) ==
    IF DefaultChanged(p.default, old.default)
    THEN UpdateDefault(p, s)
    ELSE [cb_reset |-> cb, store |-> s, log |-> <<>>]

\* view: the form gets the node reference and the current reset callback,
\* the binder reads the store, and set_file builds a new once-callback.
Render(ts) ==
    /\ ref_form' = TRUE
    /\ onreset' = cb_reset'
    /\ shown' = store'
    /\ set_files' = FreshCb(ts)
    /\ used' = used \cap HeldBy(ts)

Init ==
    /\ phase = "unmounted"
    /\ store \in T
    /\ props = [default |-> {}, auto_reset |-> FALSE]
    /\ cb_reset = {}
    /\ tasks = <<>>
    /\ ref_form = FALSE
    /\ set_files = 0
    /\ used = {}
    /\ onreset = {}
    /\ shown = TDefault
    /\ last = [op |-> "init"]
    /\ log = <<>>
    /\ emitted = <<>>

\* ----------------------------------------------------------------- actions

\* Model::create
Create(p) ==
    /\ phase = "unmounted"
    /\ LET r == UpdateDefault(p, store)
       IN  /\ cb_reset' = r.cb_reset
           /\ store' = r.store
           /\ log' = r.log
    /\ phase' = "created"
    /\ props' = p
    /\ tasks' = <<>>
    /\ ref_form' = FALSE
    /\ last' = [op |-> "create"]
    /\ emitted' = <<>>
    /\ UNCHANGED <<set_files, used, onreset, shown>>

\* Model::view, the first render
View ==
    /\ phase = "created"
    /\ phase' = "live"
    /\ UNCHANGED <<store, props, cb_reset, tasks>>
    /\ Render(tasks)
    /\ last' = [op |-> "view"]
    /\ log' = <<>>
    /\ emitted' = <<>>

\* Model::change
Change(p) ==
    /\ phase = "live"
    /\ LET r == ChangeResult(p, props, cb_reset, store)
       IN  /\ cb_reset' = r.cb_reset
           /\ store' = r.store
           /\ log' = r.log
    /\ props' = p
    /\ UNCHANGED <<phase, tasks>>
    /\ Render(tasks)
    /\ last' = [op |-> "change", old |-> props.default]
    /\ emitted' = <<>>

\* A callback from set(f) fires: a button writes the word w.
Click(w) ==
    /\ phase = "live"
    /\ store' = SetWord(store, w)
    /\ UNCHANGED <<phase, props, cb_reset, tasks>>
    /\ Render(tasks)
    /\ last' = [op |-> "set"]
    /\ log' = <<"reduce">>
    /\ emitted' = <<>>

\* A callback from set_text(f) fires with an input event.
TextInput(data) ==
    /\ phase = "live"
    /\ store' = SetText(store, ExtractText(data))
    /\ UNCHANGED <<phase, props, cb_reset, tasks>>
    /\ Render(tasks)
    /\ last' = [op |-> "set_text", value |-> data.value]
    /\ log' = <<"reduce">>
    /\ emitted' = <<>>

\* A callback from set_select(f) fires with a change event.
SelectChange(data) ==
    /\ phase = "live"
    /\ UNCHANGED <<phase, props, cb_reset, tasks>>
    /\ LET x == ExtractSelect(data)
       IN  IF x.panic
           THEN /\ log' = <<"panic">>
                /\ UNCHANGED <<store, ref_form, onreset, shown, set_files, used>>
           ELSE /\ log' = <<"reduce">>
                /\ store' = SetText(store, x.value)
                /\ Render(tasks)
    /\ last' = [op |-> "set_select", kind |-> data.kind]
    /\ emitted' = <<>>

\* One instance of a callback from set, set_text or set_select is invoked
\* with the event d1 and then, by a holder that kept the same instance,
\* with the event d2.  A set callback ignores its event: what it writes is
\* fixed by the instance, so d1 and d2 name the same word.
InvokeTwice(producer, d1, d2) ==
    /\ phase = "live"
    /\ producer = "set" => d1 = d2
    /\ UNCHANGED <<phase, props, cb_reset, tasks>>
    /\ LET r1 == InvokeOnce(producer, store, FALSE, Extract(producer, d1))
           r2 == InvokeOnce(producer, r1.store, r1.taken,
                            Extract(producer, d2))
       IN  /\ store' = r2.store
           /\ log' = <<r1.log, r2.log>>
           /\ IF r2.taken THEN Render(tasks)
              ELSE UNCHANGED <<ref_form, onreset, shown, set_files, used>>
    /\ last' = [op |-> "twice", producer |-> producer,
                first |-> d1, second |-> d2]
    /\ emitted' = <<>>

\* A callback from set_file(f) fires with a change event; failAt names the
\* file whose read_file fails (0: none).
FileChange(data, failAt) ==
    /\ phase = "live"
    /\ failAt \in 0..Len(ExtractFiles(data))
    /\ Len(Retain(tasks)) + Len(ExtractFiles(data)) <= MaxTasks
    /\ LET r == UpdateFiles(tasks, ExtractFiles(data), set_files, failAt)
       IN  /\ tasks' = r.tasks
           /\ log' = r.log
    /\ UNCHANGED <<phase, store, props, cb_reset, ref_form, onreset, shown,
                   set_files, used>>
    /\ last' = [op |-> "set_file", kind |-> data.kind,
                n |-> Len(ExtractFiles(data)), failAt |-> failAt]
    /\ emitted' = <<>>

\* The read of tasks[i] completes: its FileData goes to the once-callback
\* the task was scheduled with.
ReadDone(i) ==
    /\ phase = "live"
    /\ i \in 1..Len(tasks)
    /\ is_active(tasks[i])
    /\ UNCHANGED <<phase, props, cb_reset>>
    /\ LET ts == [tasks EXCEPT ![i] = Completed]
           fd == [name |-> tasks[i].file]
       IN  /\ tasks' = Renumbered(ts)
           /\ IF Taken(tasks[i].cb, used)
              THEN /\ log' = <<"panic">>
                   /\ set_files' = Rank(ts, set_files)
                   /\ used' = {Rank(ts, c) : c \in used \cap HeldBy(ts)}
                   /\ UNCHANGED <<store, ref_form, onreset, shown>>
              ELSE /\ log' = <<"reduce">>
                   /\ store' = SetFile(store, fd)
                   /\ ref_form' = TRUE
                   /\ onreset' = cb_reset'
                   /\ shown' = store'
                   /\ set_files' = FreshCb(ts)
                   /\ used' = {Rank(ts, c) :
                                 c \in (used \cup tasks[i].cb) \cap HeldBy(ts)}
    /\ last' = [op |-> "read", file |-> tasks[i].file]
    /\ emitted' = <<>>

\* cb_submit's message reaches update: Msg::Submit for a submit event with
\* target t; before is what the handler did before sending the message.
Submit(t, before) ==
    LET r == UpdateSubmit(props, cb_reset, onreset, store, t)
    IN  /\ store' = r.store
        /\ emitted' = r.emitted
        /\ log' = before \o r.log
        /\ UNCHANGED <<phase, props, cb_reset, tasks>>
        /\ IF r.reduced THEN Render(tasks)
           ELSE UNCHANGED <<ref_form, onreset, shown, set_files, used>>

\* The form's submit event reaches cb_submit (prevent_default, then
\* Msg::Submit).
FormSubmit(t) ==
    /\ phase = "live"
    /\ Submit(t, <<>>)
    /\ last' = [op |-> "submit", target |-> t]

\* A callback from submit() fires: a submit event is dispatched on the form
\* when the node reference is bound, nothing happens otherwise.
SubmitClick ==
    /\ phase \in {"created", "live"}
    /\ IF Cast(ref_form)
       THEN Submit("form", <<"dispatch submit">>)
       ELSE /\ log' = <<>>
            /\ emitted' = <<>>
            /\ UNCHANGED <<phase, store, props, cb_reset, tasks, ref_form,
                           onreset, shown, set_files, used>>
    /\ last' = [op |-> "submit()", bound |-> ref_form]

\* The form's reset event reaches the rendered reset callback.
FormReset ==
    /\ phase = "live"
    /\ store' = EmitReset(onreset, store)
    /\ UNCHANGED <<phase, props, cb_reset, tasks>>
    /\ Render(tasks)
    /\ last' = [op |-> "reset"]
    /\ log' = <<"reset">>
    /\ emitted' = <<>>

Next ==
    \/ \E p \in Props : Create(p)
    \/ View
    \/ \E p \in Props : Change(p)
    \/ \E w \in Words : Click(w)
    \/ \E data \in InputData : TextInput(data)
    \/ \E data \in ChangeData : SelectChange(data)
    \/ \E producer \in Producers :
         \E d1, d2 \in Events(producer) : InvokeTwice(producer, d1, d2)
    \/ \E data \in ChangeData :
         \E failAt \in 0..Cardinality(FileNames) : FileChange(data, failAt)
    \/ \E i \in 1..MaxTasks : ReadDone(i)
    \/ \E t \in Targets : FormSubmit(t)
    \/ SubmitClick
    \/ FormReset

Spec == Init /\ [][Next]_vars

\* ------------------------------------------------------------------ claims

\* The handler that ran last handled a Msg::Submit.
IsSubmitMsg(l) == l.op = "submit" \/ (l.op = "submit()" /\ l.bound)

\* How often x occurs in seq, and where it occurs first.
Count(seq, x) == Cardinality({i \in 1..Len(seq) : seq[i] = x})
Pos(seq, x) == CHOOSE i \in 1..Len(seq) :
                  seq[i] = x /\ \A j \in 1..Len(seq) : seq[j] = x => i <= j

\* Reads in progress among the tasks ts.
InProgress(ts) == Cardinality({i \in 1..Len(ts) : is_active(ts[i])})

\* C1: a Submit message processed with auto_reset and a default d emits
\* on_submit exactly once, with the store value from before the message,
\* ahead of the reset-event dispatch and of every reset reduction, and
\* leaves the store equal to d.
C1_AutoResetOrdering ==
    [][(IsSubmitMsg(last') /\ props.auto_reset /\ props.default /= {}) =>
         /\ emitted' = <<store>>
         /\ Count(log', "emit") = 1
         /\ \A i \in 1..Len(log') :
              log'[i] \in {"dispatch", "onreset", "reset"}
                => Pos(log', "emit") < i
         /\ store' \in props.default]_vars

C1_Witness ==
    /\ last.op = "submit"
    /\ props.auto_reset
    /\ props.default = {"one"}
    /\ emitted = <<"Alice">>
    /\ log = <<"Msg::Submit", "emit", "dispatch", "onreset", "reset">>
    /\ store = "one"

\* C2: a Submit message processed without auto_reset emits on_submit
\* exactly once with the current store value and leaves the store, the
\* reset callback and the live-task list as they were.
C2_SubmitFrame ==
    [][(IsSubmitMsg(last') /\ ~props.auto_reset) =>
         /\ emitted' = <<store>>
         /\ Count(log', "emit") = 1
         /\ store' = store
         /\ cb_reset' = cb_reset
         /\ tasks' = tasks]_vars

C2_Witness ==
    /\ last.op = "submit"
    /\ ~props.auto_reset
    /\ props.default = {"one"}
    /\ store = "Alice"
    /\ emitted = <<"Alice">>
    /\ Len(tasks) = 2
    /\ InProgress(tasks) = 1

\* C3: after mounting with a default d, and until a user event has been
\* processed, the store equals d, whatever it held before the mount.
C3_DefaultOnMount ==
    (last.op \in {"create", "view"} /\ props.default /= {})
        => store \in props.default

C3_Witness ==
    /\ last.op = "create"
    /\ props.default = {"two"}
    /\ store = "two"
    /\ log = <<"reset">>

\* C4: a receipt of properties whose default is present and differs from
\* the previous one resets the store to it exactly once; a receipt whose
\* default equals the previous one resets nothing, so the user's value
\* survives it.
C4_DefaultChange ==
    [][last'.op = "change" =>
         /\ (props'.default /= {} /\ props'.default /= props.default)
               => (store' \in props'.default /\ Count(log', "reset") = 1)
         /\ (props'.default = props.default)
               => (store' = store /\ Count(log', "reset") = 0)]_vars

C4_Witness ==
    /\ last.op = "change"
    /\ last.old = {"two"}
    /\ props.default = {"two"}
    /\ store = "Alice"
    /\ log = <<>>

\* C5: the completion of every read of a selection applies the reducer to
\* the store with that file's data, so the store reflects the file whose
\* read completed last.
C5_EveryReadReduces ==
    last.op = "read" => (log = <<"reduce">> /\ store = last.file)

\* C6 as stated: in every reachable state the live-task list holds no more
\* tasks than there are reads in progress.
C6_OnlyLiveTasks == Len(tasks) <= InProgress(tasks)

\* C6, amended: a completed task stays in the list until a Files message is
\* processed; right after a Files message the list holds exactly the reads
\* that were in progress before it and the newly scheduled ones, all of
\* them in progress.
C6_PrunedOnFiles ==
    [][last'.op = "set_file" =>
         /\ \A i \in 1..Len(tasks') : is_active(tasks'[i])
         /\ Len(tasks') = InProgress(tasks) + Count(log', "schedule")]_vars

C6_Witness ==
    /\ last.op = "set_file"
    /\ last.n = 1
    /\ Len(tasks) = 2
    /\ InProgress(tasks) = 2
    /\ set_files = 1

\* C7: a set_select callback fired with a change event that is not from a
\* select element panics, does not run the reducer and leaves the store as
\* it was.
C7_SelectMisuse ==
    [][(last'.op = "set_select" /\ last'.kind /= "Select") =>
         /\ log' = <<"panic">>
         /\ store' = store
         /\ shown' = shown]_vars

C7_Witness ==
    /\ last.op = "set_select"
    /\ last.kind = "Value"
    /\ log = <<"panic">>
    /\ store = "Alice"

\* C8: a submit() callback fired while the form reference is unbound does
\* nothing (no Submit message, no on_submit emission, no change of the
\* store); fired while it is bound it dispatches a submit event that leads
\* to exactly one Submit message.
C8_SubmitNoOp ==
    [][last'.op = "submit()" =>
         IF ref_form
         THEN /\ log'[1] = "dispatch submit"
              /\ Count(log', "Msg::Submit") = 1
              /\ Count(log', "emit") = 1
         ELSE /\ log' = <<>>
              /\ emitted' = <<>>
              /\ store' = store]_vars

C8_Witness ==
    /\ last.op = "submit()"
    /\ ~last.bound
    /\ phase = "created"
    /\ props.auto_reset
    /\ log = <<>>
    /\ emitted = <<>>

\* C9: a text event applies the reducer to the store with exactly the
\* event's text, the render that follows reads that result, and a Submit
\* right after the event emits it to on_submit.
C9_ReadCoherence ==
    [][/\ last'.op = "set_text" =>
            (store' = SetText(store, last'.value) /\ shown' = store')
       /\ (last.op = "set_text" /\ IsSubmitMsg(last')) =>
            emitted' = <<last.value>>]_vars

C9_Witness ==
    /\ IsSubmitMsg(last)
    /\ ~props.auto_reset
    /\ emitted = <<"Alice">>
    /\ store = "Alice"
    /\ shown = "Alice"

\* C10 as stated: when scheduling one file of a selection fails, every
\* other file of the selection is still scheduled.
C10_OthersScheduled ==
    (last.op = "set_file" /\ last.failAt > 0)
        => Count(log, "schedule") = last.n - 1

\* C10, amended: the failure panics out of the Files handler; the files
\* before the failing one have been scheduled and are in the list, the
\* failing file and the files after it are not scheduled.
C10_StopsAtFailure ==
    [][(last'.op = "set_file" /\ last'.failAt > 0) =>
         /\ Count(log', "schedule") = last'.failAt - 1
         /\ log'[Len(log')] = "panic"
         /\ Len(tasks') = InProgress(tasks) + last'.failAt - 1]_vars

C10_Witness ==
    /\ last.op = "set_file"
    /\ last.n = 2
    /\ last.failAt = 1
    /\ log = <<"Msg::Files", "retain", "panic">>
    /\ tasks = <<>>

\* C11: in every state after the mount, whatever receipts of properties,
\* submits and resets came before, the value the cached reset callback
\* writes is the default of the current properties whenever that default
\* is present, never a default of earlier properties.
C11_ResetMatchesDefault ==
    (phase /= "unmounted" /\ props.default /= {})
        => (cb_reset = props.default
              /\ \A s \in T : EmitReset(cb_reset, s) \in props.default)

C11_Witness ==
    /\ last.op = "change"
    /\ last.old = {"one"}
    /\ props.default = {"two"}
    /\ cb_reset = {"two"}
    /\ store = "two"

\* C12: mounting with no default leaves the store as it was and issues no
\* reset reduction.
C12_MountWithoutDefault ==
    [][(last'.op = "create" /\ props'.default = {}) =>
         /\ store' = store
         /\ log' = <<>>]_vars

C12_Witness ==
    /\ last.op = "create"
    /\ props.default = {}
    /\ store = "Alice"
    /\ log = <<>>
    /\ cb_reset = {TDefault}

\* C13: a Submit message processed with auto_reset whose event has no
\* target, or whose target fails the dispatch of the reset event, does not
\* fail: no reset event reaches the form, on_submit is emitted exactly
\* once with the store value from before, and the reset callback is still
\* emitted, so the store ends as the value it writes (the default).
C13_ResetWithoutTarget ==
    [][(last'.op = "submit" /\ last'.target \in {"none", "error"}
          /\ props.auto_reset) =>
         /\ Count(log', "panic") = 0
         /\ Count(log', "onreset") = 0
         /\ last'.target = "none" => Count(log', "dispatch") = 0
         /\ emitted' = <<store>>
         /\ Count(log', "emit") = 1
         /\ Count(log', "reset") = 1
         /\ store' = EmitReset(cb_reset, store)
         /\ props.default /= {} => store' \in props.default]_vars

C13_Witness ==
    /\ last.op = "submit"
    /\ last.target = "none"
    /\ props.auto_reset
    /\ props.default = {"one"}
    /\ emitted = <<"Alice">>
    /\ log = <<"Msg::Submit", "emit", "reset">>
    /\ store = "one"

\* C14 as stated: a receipt that takes the default from present (d) to
\* absent leaves a reset callback that no longer writes d and does not
\* modify the store; a receipt that takes it from absent to present (d)
\* leaves a reset callback that writes d and sets the store to d.
C14_NoLongerWritesOld ==
    [][last'.op = "change" =>
         /\ (props.default /= {} /\ props'.default = {}) =>
               /\ \A s \in T : EmitReset(cb_reset', s) \notin props.default
               /\ store' = store
         /\ (props.default = {} /\ props'.default /= {}) =>
               /\ cb_reset' = props'.default
               /\ store' \in props'.default]_vars

\* C14, amended: after a receipt that takes the default from present (d)
\* to absent the reset callback writes T::default() (which is d again when
\* d is T::default()) and the store is not modified; after a receipt that
\* takes it from absent to present (d) the reset callback writes d and the
\* store has been set to d by one reset reduction.
C14_DefaultPresence ==
    [][last'.op = "change" =>
         /\ (props.default /= {} /\ props'.default = {}) =>
               /\ cb_reset' = {TDefault}
               /\ store' = store
               /\ log' = <<>>
         /\ (props.default = {} /\ props'.default /= {}) =>
               /\ cb_reset' = props'.default
               /\ store' \in props'.default
               /\ log' = <<"reset">>]_vars

C14_Witness ==
    /\ last.op = "change"
    /\ last.old = {"one"}
    /\ props.default = {}
    /\ cb_reset = {TDefault}
    /\ onreset = {TDefault}
    /\ store = "Alice"
    /\ log = <<>>

\* C16: an instance of a callback from set, set_with, set_text or
\* set_select invoked twice in a row applies the reducer to the store at
\* most once: once an invocation has applied it, the next one panics and
\* leaves the store as that first application made it.
C16_SingleShot ==
    [][last'.op = "twice" =>
         /\ Count(log', "reduce") <= 1
         /\ log'[1] = "reduce" =>
               /\ log'[2] = "panic"
               /\ store' = ExtractText(last'.first)
         /\ log'[1] = "panic" =>
               (last'.producer = "set_select" /\ last'.first.kind /= "Select")
         /\ log' = <<"panic", "panic">> => store' = store]_vars

C16_Witness ==
    /\ last.op = "twice"
    /\ last.producer = "set_text"
    /\ last.first = [value |-> "Al"]
    /\ last.second = [value |-> "Alice"]
    /\ log = <<"reduce", "panic">>
    /\ store = "Al"
    /\ shown = "Al"

\* C15 as stated: a set_file callback fired with a change event that
\* carries no file list schedules no read, does not run the reducer and
\* leaves the store and the live-task list as they were.
C15_NoOpWithoutFiles ==
    [][(last'.op = "set_file" /\ last'.kind /= "Files") =>
         /\ Count(log', "schedule") = 0
         /\ Count(log', "reduce") = 0
         /\ store' = store
         /\ tasks' = tasks]_vars

\* C15, amended: such an event still sends a Files message with an empty
\* list; no read is scheduled, the reducer is not run and the store is
\* unchanged, and the live-task list keeps its reads in progress, in
\* order, and loses its completed tasks.
C15_EmptyFilesMessage ==
    [][(last'.op = "set_file" /\ last'.kind /= "Files") =>
         /\ log' = <<"Msg::Files", "retain">>
         /\ store' = store
         /\ shown' = shown
         /\ tasks' = SelectSeq(tasks, is_active)]_vars

C15_Witness ==
    /\ last.op = "set_file"
    /\ last.kind = "Value"
    /\ log = <<"Msg::Files", "retain">>
    /\ Len(tasks) = 1
    /\ InProgress(tasks) = 1
    /\ used = {0}
    /\ store = "a.txt"

\* C17: while no default is configured the reset callback writes
\* T::default(): a reset event on the form, and a Submit message processed
\* with auto_reset, leave the store equal to T::default(), whatever it
\* held and whatever default was configured earlier.
C17_ResetWithoutDefault ==
    [][((last'.op = "reset" \/ (IsSubmitMsg(last') /\ props.auto_reset))
          /\ props.default = {}) =>
         /\ cb_reset = {TDefault}
         /\ Count(log', "reset") = 1
         /\ store' = TDefault]_vars

C17_Witness ==
    /\ last.op = "submit"
    /\ last.target = "error"
    /\ props.auto_reset
    /\ props.default = {}
    /\ emitted = <<"Alice">>
    /\ store = TDefault

\* The files of the reads in progress among ts, in list order.
ActiveFiles(ts) ==
    LET a == SelectSeq(ts, is_active) IN [i \in 1..Len(a) |-> a[i].file]

\* seq without its i-th element; a is the beginning of b.
Without(seq, i) ==
    [j \in 1..(Len(seq) - 1) |-> IF j < i THEN seq[j] ELSE seq[j + 1]]
IsPrefix(a, b) == Len(a) <= Len(b) /\ SubSeq(b, 1, Len(a)) = a

\* C18 as stated: a Files message removes only tasks that are not in
\* progress and appends one task per selected file; a Submit message and a
\* receipt of properties leave the live-task list unchanged.
C18_OnePerSelectedFile ==
    [][/\ last'.op = "set_file" =>
            /\ IsPrefix(ActiveFiles(tasks), ActiveFiles(tasks'))
            /\ Len(tasks') = InProgress(tasks) + last'.n
       /\ last'.op \in {"submit", "submit()", "change"} =>
            tasks' = tasks]_vars

\* C18, amended: no handler removes a read in progress from the live-task
\* list.  A Files message removes only tasks that are not in progress and
\* appends one task per selected file up to the first file whose
\* scheduling fails (every file when none fails); a read leaves the reads
\* in progress only by completing; every other handler, the Submit
\* message and the receipt of properties among them, leaves the list
\* unchanged.
C18_ActiveReadsStay ==
    [][/\ last'.op = "set_file" =>
            /\ IsPrefix(ActiveFiles(tasks), ActiveFiles(tasks'))
            /\ Len(tasks') = InProgress(tasks)
                  + (IF last'.failAt = 0 THEN last'.n ELSE last'.failAt - 1)
       /\ last'.op = "read" =>
            \E i \in 1..Len(ActiveFiles(tasks)) :
               /\ ActiveFiles(tasks)[i] = last'.file
               /\ ActiveFiles(tasks') = Without(ActiveFiles(tasks), i)
       /\ last'.op \notin {"set_file", "read"} =>
            tasks' = tasks]_vars

C18_Witness ==
    /\ last.op = "set_file"
    /\ last.n = 1
    /\ last.failAt = 0
    /\ ActiveFiles(tasks) = <<"b.txt", "a.txt">>
    /\ tasks[1].cb = {0}
    /\ tasks[2].cb = {1}

====
